---- MODULE Spec2Model ----
(***************************************************************************)
(* ANT+ Stride Based Speed and Distance Monitor profile decoder            *)
(* (src/src/ant/plus/stride.py, class Stride).                             *)
(*                                                                         *)
(* The state is the Stride object's fields and its lock, plus, for every   *)
(* thread, the position it has reached inside _set_data (on_message) or    *)
(* inside a property accessor.  Every Python statement that touches the    *)
(* object is one step, so that two threads interleave between any two      *)
(* statements, as the interpreter lets them.                               *)
(*                                                                         *)
(* An optional value is a sequence: <<>> is None, <<v>> is the value v.    *)
(* A frame is a bytearray, a sequence of numbers 0..255; Python's data[i]  *)
(* is Item(data, i).  The diagnostic print calls write to stdout only and  *)
(* leave the object alone.                                                 *)
(***************************************************************************)
EXTENDS Integers, Sequences, FiniteSets, TLC

VARIABLES
    stride_count,      \* self._stride_count
    calories,          \* self._calories
    hw_revision,       \* self._hw_revision
    manufacturer_id,   \* self._manufacturer_id
    model_number,      \* self._model_number
    sw_revision,       \* self._sw_revision
    serial_number,     \* self._serial_number
    detected_device,   \* self._detected_device
    lock,              \* self.lock: Free, or the thread that holds it
    pc,                \* per thread: where it stands in _set_data / an accessor
    data,              \* per thread: the frame passed to _set_data
    acc,               \* per thread: the accessor being evaluated
    ret,               \* per thread: the values its accessor calls returned
    ops,               \* number of _set_data and accessor calls started
    last,              \* history: per page, the latest 9-byte frame in lock order
    stride_data_calls  \* number of invocations of callback.stride_data

fields == <<stride_count, calories, hw_revision, manufacturer_id, model_number,
            sw_revision, serial_number, detected_device>>

vars == <<stride_count, calories, hw_revision, manufacturer_id, model_number,
          sw_revision, serial_number, detected_device, lock, pc, data, acc, ret,
          ops, last, stride_data_calls>>

----------------------------------------------------------------------------
(* Bounds of the model *)

\* the number of calls (on_message and accessors together) in one run
MaxOps == 3

----------------------------------------------------------------------------
(* Values *)

None == <<>>
Some(v) == <<v>>

Free == "free"

DataSize == 9
PayloadOffset == 1

\* Python's data[i], 0-based
Item(d, i) == d[i + 1]

\* Python's data[a:b] for 0 <= a <= b: never raises, may come out short
Slice(d, a, b) ==
    LET hi == IF b < Len(d) THEN b ELSE Len(d)
    IN  IF a >= hi THEN <<>> ELSE [k \in 1..(hi - a) |-> d[a + k]]

\* the indices a step reads are inside the frame (otherwise: IndexError)
InRange(d, idxs) == \A i \in idxs : i < Len(d)

PAGE_STRIDE == 1
PAGE_TEMPLATE == 2
PAGE_CALORIES == 3
PAGE_DISTANCE == 16
PAGE_CAPABILITIES == 22
PAGE_MANUFACTURER == 80
PAGE_PRODUCT == 81

GroupPages == {PAGE_STRIDE, PAGE_CALORIES, PAGE_MANUFACTURER, PAGE_PRODUCT}
PrintPages == {PAGE_TEMPLATE, PAGE_DISTANCE, PAGE_CAPABILITIES}
KnownPages == GroupPages \cup PrintPages

Accessors == {"detected_device", "stride_count", "hardware_revision",
              "manufacturer_id", "model_number", "software_revision",
              "serial_number"}

\* the identity the pairing collaborator reports: (device_number, transmission_type)
DeviceId == <<1234, 5>>

----------------------------------------------------------------------------
(* The decode rules of _set_data *)

\* variant: the byte after the count is read
NewStrideCountNextByte(old, d) == Some(Item(d, 7 + PayloadOffset))

\* variant: the count received is added to the count stored
NewStrideCountAdded(old, d) ==
    IF old = None THEN Some(Item(d, 6 + PayloadOffset))
    ELSE Some((old[1] + Item(d, 6 + PayloadOffset)) % 256)

\* data[6 + payload_offset] replaces the stored count (page 0x01)
NewStrideCount(old, d) == Some(Item(d, 6 + PayloadOffset))

\* data[6 + payload_offset] replaces the stored calories (page 0x03)
NewCalories(old, d) == Some(Item(d, 6 + PayloadOffset))

HwRevisionOf(d) == Item(d, 3 + PayloadOffset)

\* variant: the two bytes are combined high byte first
ManufacturerIdBigEndian(d) ==
    LET msb == Item(d, 4 + PayloadOffset)
        lsb == Item(d, 5 + PayloadOffset)
    IN  256 * msb + lsb

ManufacturerIdOf(d) ==
    LET lsb == Item(d, 4 + PayloadOffset)
        msb == Item(d, 5 + PayloadOffset)
    IN  256 * msb + lsb

ModelNumberOf(d) ==
    LET lsb == Item(d, 6 + PayloadOffset)
        msb == Item(d, 7 + PayloadOffset)
    IN  256 * msb + lsb

SwRevisionOf(d) == Item(d, 3 + PayloadOffset)

\* struct.unpack('>L', b)[0] of a 4-byte string b: the unsigned 32-bit number
\* b[0]*2^24 + b[1]*2^16 + b[2]*2^8 + b[3].  Numbers of that size are written in
\* two 16-bit limbs <<hi, lo>>, standing for hi * 65536 + lo.
UnpackBigEndianL(b) == <<b[1] * 256 + b[2], b[3] * 256 + b[4]>>

\* variant: struct.unpack('<L', ...), low byte first
SerialNumberLittleEndian(d) ==
    LET b == Slice(d, 4 + PayloadOffset, 8 + PayloadOffset)
    IN  <<b[4] * 256 + b[3], b[2] * 256 + b[1]>>

SerialNumberOf(d) == UnpackBigEndianL(Slice(d, 4 + PayloadOffset, 8 + PayloadOffset))

\* variant: only frames that are too short are dropped
LengthAtLeast(d) == Len(d) >= DataSize

\* len(data) != data_size: return
LengthOk(d) == Len(d) = DataSize

\* variant: the calories page runs the stride branch
BranchCaloriesAsStride(page) ==
    CASE page = PAGE_STRIDE       -> "s_stride"
      [] page = PAGE_TEMPLATE     -> "s_print"
      [] page = PAGE_CALORIES     -> "s_stride"
      [] page = PAGE_DISTANCE     -> "s_print"
      [] page = PAGE_CAPABILITIES -> "s_print"
      [] page = PAGE_MANUFACTURER -> "s_hw"
      [] page = PAGE_PRODUCT      -> "s_sw"
      [] OTHER                    -> "s_release"

\* variant: a final else runs the calories branch
BranchElseCalories(page) ==
    CASE page = PAGE_STRIDE       -> "s_stride"
      [] page = PAGE_TEMPLATE     -> "s_print"
      [] page = PAGE_CALORIES     -> "s_calories"
      [] page = PAGE_DISTANCE     -> "s_print"
      [] page = PAGE_CAPABILITIES -> "s_print"
      [] page = PAGE_MANUFACTURER -> "s_hw"
      [] page = PAGE_PRODUCT      -> "s_sw"
      [] OTHER                    -> "s_calories"

\* the if / elif chain on device_page: the position of the branch taken
Branch(page) ==
    CASE page = PAGE_STRIDE       -> "s_stride"
      [] page = PAGE_TEMPLATE     -> "s_print"
      [] page = PAGE_CALORIES     -> "s_calories"
      [] page = PAGE_DISTANCE     -> "s_print"
      [] page = PAGE_CAPABILITIES -> "s_print"
      [] page = PAGE_MANUFACTURER -> "s_hw"
      [] page = PAGE_PRODUCT      -> "s_sw"
      [] OTHER                    -> "s_release"

\* the field an accessor copies
FieldOf(a) ==
    CASE a = "detected_device"   -> detected_device
      [] a = "stride_count"      -> stride_count
      [] a = "hardware_revision" -> hw_revision
      [] a = "manufacturer_id"   -> manufacturer_id
      [] a = "model_number"      -> model_number
      [] a = "software_revision" -> sw_revision
      [] a = "serial_number"     -> serial_number

----------------------------------------------------------------------------
(* Threads and frames *)

Writers == {"w1", "w2"}
Readers == {"r1"}
Main == "main"
Threads == Writers \cup Readers \cup {Main}

\* a 9-byte frame: channel number, page, payload bytes 1..7
Frame(page, b1, b2, b3, b4, b5, b6, b7) == <<0, page, b1, b2, b3, b4, b5, b6, b7>>

\* a frame whose seven payload bytes after the page are v, v+1, ..., v+6: all different
Ramp(page, v) == Frame(page, v, v + 1, v + 2, v + 3, v + 4, v + 5, v + 6)

\* one value repeated
Flat(page, v) == Frame(page, v, v, v, v, v, v, v)

ShortFrame == <<0, PAGE_STRIDE, 1, 2, 3, 4, 5, 6>>
LongFrame == <<0, PAGE_MANUFACTURER, 1, 2, 3, 4, 5, 6, 7, 8>>
BadFrames == {<<>>, <<0>>, ShortFrame, LongFrame}

UnknownPages == {0, 255}

\* the frames the single-threaded runs deliver
SeqFrames ==
    BadFrames
    \cup {Ramp(p, 1) : p \in KnownPages \cup UnknownPages}
    \cup {Ramp(p, 249) : p \in GroupPages}
    \cup {Flat(p, v) : p \in GroupPages, v \in {0, 255}}

\* the frames the concurrent runs deliver
ConcFrames ==
    {ShortFrame}
    \cup {Ramp(p, 1) : p \in GroupPages \cup {PAGE_TEMPLATE, 255}}
    \cup {Ramp(p, 249) : p \in {PAGE_STRIDE, PAGE_MANUFACTURER}}

NoFrames == [p \in GroupPages |-> <<>>]
NoReturns == [a \in {} |-> None]

----------------------------------------------------------------------------
(* Construction: Stride.__init__ *)

Init ==
    /\ detected_device = None
    /\ stride_count = None
    /\ calories = None
    /\ hw_revision = None
    /\ manufacturer_id = None
    /\ model_number = None
    /\ sw_revision = None
    /\ serial_number = None
    /\ lock = Free
    /\ pc = [t \in Threads |-> "idle"]
    /\ data = [t \in Threads |-> <<>>]
    /\ acc = [t \in Threads |-> "none"]
    /\ ret = [t \in Threads |-> NoReturns]
    /\ ops = 0
    /\ last = NoFrames
    /\ stride_data_calls = 0

----------------------------------------------------------------------------
(* on_message: Stride._set_data(data) *)

\* the call: data is bound to the frame
OnMessage(t, f) ==
    /\ pc[t] = "idle"
    /\ ops < MaxOps
    /\ pc' = [pc EXCEPT ![t] = "s_len"]
    /\ data' = [data EXCEPT ![t] = f]
    /\ ops' = ops + 1
    /\ UNCHANGED <<fields, lock, acc, ret, last, stride_data_calls>>

\* if len(data) != data_size: return
LenCheck(t) ==
    /\ pc[t] = "s_len"
    /\ pc' = [pc EXCEPT ![t] = IF LengthOk(data[t]) THEN "s_acquire" ELSE "s_ret"]
    /\ UNCHANGED <<fields, lock, data, acc, ret, ops, last, stride_data_calls>>

\* variant: _set_data enters its block without waiting for the lock
SetAcquireNoWait(t) ==
    /\ pc[t] = "s_acquire"
    /\ lock' = t
    /\ pc' = [pc EXCEPT ![t] = "s_page"]
    /\ last' = IF Len(data[t]) = DataSize /\ Item(data[t], PayloadOffset) \in GroupPages
               THEN [last EXCEPT ![Item(data[t], PayloadOffset)] = data[t]]
               ELSE last
    /\ UNCHANGED <<fields, data, acc, ret, ops, stride_data_calls>>

\* with self.lock: (entry)
SetAcquire(t) ==
    /\ pc[t] = "s_acquire"
    /\ lock = Free
    /\ lock' = t
    /\ pc' = [pc EXCEPT ![t] = "s_page"]
    /\ last' = IF Len(data[t]) = DataSize /\ Item(data[t], PayloadOffset) \in GroupPages
               THEN [last EXCEPT ![Item(data[t], PayloadOffset)] = data[t]]
               ELSE last
    /\ UNCHANGED <<fields, data, acc, ret, ops, stride_data_calls>>

\* an exception inside the with block: the lock is released, the call ends
Raise(t) ==
    /\ pc' = [pc EXCEPT ![t] = "s_raised"]
    /\ lock' = Free
    /\ UNCHANGED <<fields, data, acc, ret, ops, last, stride_data_calls>>

\* device_page = data[data_page_index], then the if / elif chain
SetPage(t) ==
    /\ pc[t] = "s_page"
    /\ IF InRange(data[t], {PayloadOffset})
       THEN /\ pc' = [pc EXCEPT ![t] = Branch(Item(data[t], PayloadOffset))]
            /\ UNCHANGED <<fields, lock, data, acc, ret, ops, last,
                           stride_data_calls>>
       ELSE Raise(t)

\* self._stride_count = data[stride_count_index]
SetStride(t) ==
    /\ pc[t] = "s_stride"
    /\ IF InRange(data[t], {6 + PayloadOffset})
       THEN /\ stride_count' = NewStrideCount(stride_count, data[t])
            /\ pc' = [pc EXCEPT ![t] = "s_release"]
            /\ UNCHANGED <<calories, hw_revision, manufacturer_id, model_number,
                           sw_revision, serial_number, detected_device, lock, data,
                           acc, ret, ops, last, stride_data_calls>>
       ELSE Raise(t)

\* print("page 2, template") and the two other diagnostic branches
SetPrint(t) ==
    /\ pc[t] = "s_print"
    /\ pc' = [pc EXCEPT ![t] = "s_release"]
    /\ UNCHANGED <<fields, lock, data, acc, ret, ops, last, stride_data_calls>>

\* self._calories = data[calories_index]
SetCalories(t) ==
    /\ pc[t] = "s_calories"
    /\ IF InRange(data[t], {6 + PayloadOffset})
       THEN /\ calories' = NewCalories(calories, data[t])
            /\ pc' = [pc EXCEPT ![t] = "s_release"]
            /\ UNCHANGED <<stride_count, hw_revision, manufacturer_id, model_number,
                           sw_revision, serial_number, detected_device, lock, data,
                           acc, ret, ops, last, stride_data_calls>>
       ELSE Raise(t)

\* self._hw_revision = data[3 + payload_offset]
SetHwRevision(t) ==
    /\ pc[t] = "s_hw"
    /\ IF InRange(data[t], {3 + PayloadOffset})
       THEN /\ hw_revision' = Some(HwRevisionOf(data[t]))
            /\ pc' = [pc EXCEPT ![t] = "s_manufacturer"]
            /\ UNCHANGED <<stride_count, calories, manufacturer_id, model_number,
                           sw_revision, serial_number, detected_device, lock, data,
                           acc, ret, ops, last, stride_data_calls>>
       ELSE Raise(t)

\* lsb, msb = data[4 + payload_offset], data[5 + payload_offset]
\* self._manufacturer_id = 256 * msb + lsb
SetManufacturerId(t) ==
    /\ pc[t] = "s_manufacturer"
    /\ IF InRange(data[t], {4 + PayloadOffset, 5 + PayloadOffset})
       THEN /\ manufacturer_id' = Some(ManufacturerIdOf(data[t]))
            /\ pc' = [pc EXCEPT ![t] = "s_model"]
            /\ UNCHANGED <<stride_count, calories, hw_revision, model_number,
                           sw_revision, serial_number, detected_device, lock, data,
                           acc, ret, ops, last, stride_data_calls>>
       ELSE Raise(t)

\* lsb, msb = data[6 + payload_offset], data[7 + payload_offset]
\* self._model_number = 256 * msb + lsb
SetModelNumber(t) ==
    /\ pc[t] = "s_model"
    /\ IF InRange(data[t], {6 + PayloadOffset, 7 + PayloadOffset})
       THEN /\ model_number' = Some(ModelNumberOf(data[t]))
            /\ pc' = [pc EXCEPT ![t] = "s_release"]
            /\ UNCHANGED <<stride_count, calories, hw_revision, manufacturer_id,
                           sw_revision, serial_number, detected_device, lock, data,
                           acc, ret, ops, last, stride_data_calls>>
       ELSE Raise(t)

\* self._sw_revision = data[3 + payload_offset]
SetSwRevision(t) ==
    /\ pc[t] = "s_sw"
    /\ IF InRange(data[t], {3 + PayloadOffset})
       THEN /\ sw_revision' = Some(SwRevisionOf(data[t]))
            /\ pc' = [pc EXCEPT ![t] = "s_serial"]
            /\ UNCHANGED <<stride_count, calories, hw_revision, manufacturer_id,
                           model_number, serial_number, detected_device, lock, data,
                           acc, ret, ops, last, stride_data_calls>>
       ELSE Raise(t)

\* self._serial_number = struct.unpack('>L', data[4 + payload_offset:8 + payload_offset])[0]
\* (struct.error when the slice is not 4 bytes long)
SetSerialNumber(t) ==
    /\ pc[t] = "s_serial"
    /\ IF Len(Slice(data[t], 4 + PayloadOffset, 8 + PayloadOffset)) = 4
       THEN /\ serial_number' = Some(SerialNumberOf(data[t]))
            /\ pc' = [pc EXCEPT ![t] = "s_release"]
            /\ UNCHANGED <<stride_count, calories, hw_revision, manufacturer_id,
                           model_number, sw_revision, detected_device, lock, data,
                           acc, ret, ops, last, stride_data_calls>>
       ELSE Raise(t)

\* with self.lock: (exit)
SetRelease(t) ==
    /\ pc[t] = "s_release"
    /\ lock' = Free
    /\ pc' = [pc EXCEPT ![t] = "s_ret"]
    /\ UNCHANGED <<fields, data, acc, ret, ops, last, stride_data_calls>>

\* _set_data is left (by return, by falling off its end, or by the exception)
SetReturn(t) ==
    /\ pc[t] \in {"s_ret", "s_raised"}
    /\ pc' = [pc EXCEPT ![t] = "idle"]
    /\ data' = [data EXCEPT ![t] = <<>>]
    /\ UNCHANGED <<fields, lock, acc, ret, ops, last, stride_data_calls>>

----------------------------------------------------------------------------
(* The property accessors *)

\* a client evaluates stride.<a>
AccessorCall(t, a) ==
    /\ pc[t] = "idle"
    /\ ops < MaxOps
    /\ pc' = [pc EXCEPT ![t] = "a_enter"]
    /\ acc' = [acc EXCEPT ![t] = a]
    /\ ops' = ops + 1
    /\ UNCHANGED <<fields, lock, data, ret, last, stride_data_calls>>

\* detected_device: return self._detected_device
AccDetected(t) ==
    /\ pc[t] = "a_enter"
    /\ acc[t] = "detected_device"
    /\ ret' = [ret EXCEPT ![t] = (acc[t] :> detected_device) @@ ret[t]]
    /\ pc' = [pc EXCEPT ![t] = "a_ret"]
    /\ UNCHANGED <<fields, lock, data, acc, ops, last, stride_data_calls>>

\* variant: the accessor copies its field without taking the lock
AccAcquireNoLock(t) ==
    /\ pc[t] = "a_enter"
    /\ acc[t] # "detected_device"
    /\ pc' = [pc EXCEPT ![t] = "a_copy"]
    /\ UNCHANGED <<fields, lock, data, acc, ret, ops, last, stride_data_calls>>

\* the other accessors: with self.lock: (entry)
AccAcquire(t) ==
    /\ pc[t] = "a_enter"
    /\ acc[t] # "detected_device"
    /\ lock = Free
    /\ lock' = t
    /\ pc' = [pc EXCEPT ![t] = "a_copy"]
    /\ UNCHANGED <<fields, data, acc, ret, ops, last, stride_data_calls>>

\* x = self._x
AccCopy(t) ==
    /\ pc[t] = "a_copy"
    /\ ret' = [ret EXCEPT ![t] = (acc[t] :> FieldOf(acc[t])) @@ ret[t]]
    /\ pc' = [pc EXCEPT ![t] = "a_release"]
    /\ UNCHANGED <<fields, lock, data, acc, ops, last, stride_data_calls>>

\* with self.lock: (exit)
AccRelease(t) ==
    /\ pc[t] = "a_release"
    /\ lock' = Free
    /\ pc' = [pc EXCEPT ![t] = "a_ret"]
    /\ UNCHANGED <<fields, data, acc, ret, ops, last, stride_data_calls>>

\* return x
AccReturn(t) ==
    /\ pc[t] = "a_ret"
    /\ pc' = [pc EXCEPT ![t] = "idle"]
    /\ acc' = [acc EXCEPT ![t] = "none"]
    /\ UNCHANGED <<fields, lock, data, ret, ops, last, stride_data_calls>>

----------------------------------------------------------------------------
(* The pairing collaborator (plus._EventHandler) stores the identity *)

DeviceFound ==
    /\ detected_device = None
    /\ detected_device' = DeviceId
    /\ UNCHANGED <<stride_count, calories, hw_revision, manufacturer_id, model_number,
                   sw_revision, serial_number, lock, pc, data, acc, ret, ops,
                   last, stride_data_calls>>

----------------------------------------------------------------------------
(* Specifications *)

WriterStep(t) ==
    \/ LenCheck(t)
    \/ SetAcquire(t)
    \/ SetPage(t)
    \/ SetStride(t)
    \/ SetPrint(t)
    \/ SetCalories(t)
    \/ SetHwRevision(t)
    \/ SetManufacturerId(t)
    \/ SetModelNumber(t)
    \/ SetSwRevision(t)
    \/ SetSerialNumber(t)
    \/ SetRelease(t)
    \/ SetReturn(t)

ReaderStep(t) ==
    \/ \E a \in Accessors : AccessorCall(t, a)
    \/ AccDetected(t)
    \/ AccAcquire(t)
    \/ AccCopy(t)
    \/ AccRelease(t)
    \/ AccReturn(t)

\* two threads deliver frames while a third reads
Next ==
    \/ DeviceFound
    \/ \E t \in Writers : (\E f \in ConcFrames : OnMessage(t, f)) \/ WriterStep(t)
    \/ \E t \in Readers : ReaderStep(t)

Spec == Init /\ [][Next]_vars

\* one thread delivers frames and reads in between
NextSeq ==
    \/ DeviceFound
    \/ \E f \in SeqFrames : OnMessage(Main, f)
    \/ WriterStep(Main)
    \/ ReaderStep(Main)

SeqSpec == Init /\ [][NextSeq]_vars

----------------------------------------------------------------------------
(* Vocabulary of the properties *)

\* positions inside the with block of _set_data
SetLocked == {"s_page", "s_stride", "s_print", "s_calories", "s_hw", "s_manufacturer",
              "s_model", "s_sw", "s_serial", "s_release"}
\* positions inside _set_data
SetPcs == {"s_len", "s_acquire", "s_ret", "s_raised"} \cup SetLocked
\* positions inside the with block of an accessor
AccLocked == {"a_copy", "a_release"}

\* payload byte k of a frame: the frame's byte k + 1, the channel number being byte 0
Payload(f, k) == f[k + 2]

IsPage(f, p) == Len(f) = 9 /\ Payload(f, 0) = p
BadLength(f) == Len(f) # 9
Inert(f) == Len(f) = 9 /\ Payload(f, 0) \notin {1, 3, 80, 81}

\* thread t takes a step
StepOf(t) == pc'[t] # pc[t]

\* thread t takes a step of an on_message call whose frame satisfies P
Delivering(t, P(_)) ==
    /\ StepOf(t)
    /\ \/ pc[t] \in SetPcs /\ P(data[t])
       \/ pc'[t] \in SetPcs /\ P(data'[t])

\* what the decode table says a frame of each page stores
ExpStride(f) == Some(Payload(f, 6))
ExpCalories(f) == Some(Payload(f, 6))
ExpHw(f) == Some(Payload(f, 3))
ExpManufacturer(f) == Some(Payload(f, 5) * 256 + Payload(f, 4))
ExpModel(f) == Some(Payload(f, 7) * 256 + Payload(f, 6))
ExpSw(f) == Some(Payload(f, 3))
\* b4*2^24 + b5*2^16 + b6*2^8 + b7 = (b4*256 + b5) * 65536 + (b6*256 + b7), in limbs
ExpSerial(f) == Some(<<Payload(f, 4) * 256 + Payload(f, 5),
                       Payload(f, 6) * 256 + Payload(f, 7)>>)

IsPage1(f) == IsPage(f, 1)
IsPage80(f) == IsPage(f, 80)
IsPage81(f) == IsPage(f, 81)

----------------------------------------------------------------------------
(* C1: a frame whose length is not 9 is dropped: the call goes from the length
   test straight to its return, never holds the lock, never raises, and none
   of its steps changes a field or the lock. *)
C1_BadLengthDropped ==
    /\ [](\A t \in Threads : pc[t] \in SetPcs /\ BadLength(data[t])
              => pc[t] \in {"s_len", "s_ret"} /\ lock # t)
    /\ [][\A t \in Threads : Delivering(t, BadLength)
              => UNCHANGED fields /\ UNCHANGED lock]_vars

C1_Witness ==
    /\ pc[Main] = "s_ret"
    /\ data[Main] = LongFrame
    /\ stride_count # None

(* C2: when on_message has decoded a 9-byte frame of page 0x01 whose payload
   byte 6 is N, the stored count is N and the stride_count accessor returns N;
   no step of that call changes another field. *)
C2_StrideCount ==
    /\ [](\A t \in Threads : pc[t] \in {"s_release", "s_ret"} /\ IsPage(data[t], 1)
              => stride_count = Some(Payload(data[t], 6)))
    /\ [](pc[Main] = "a_ret" /\ acc[Main] = "stride_count" /\ last[1] # <<>>
              => ret[Main]["stride_count"] = Some(Payload(last[1], 6)))
    /\ [][\A t \in Threads : Delivering(t, IsPage1)
              => UNCHANGED <<calories, hw_revision, manufacturer_id, model_number,
                             sw_revision, serial_number, detected_device>>]_vars

C2_Witness ==
    /\ pc[Main] = "a_ret"
    /\ acc[Main] = "stride_count"
    /\ ret[Main]["stride_count"] = Some(254)
    /\ calories = Some(6)

(* C3: when on_message has decoded a 9-byte frame of page 0x50, the hardware
   revision is payload byte 3, the manufacturer id is byte 5 * 256 + byte 4 and
   the model number is byte 7 * 256 + byte 6, both within 0..65535; no step of
   that call changes the stride count, the calories, the software revision or
   the serial number. *)
C3_ManufacturerInfo ==
    /\ [](\A t \in Threads : pc[t] \in {"s_release", "s_ret"} /\ IsPage(data[t], 80)
              => /\ hw_revision = Some(Payload(data[t], 3))
                 /\ manufacturer_id
                      = Some(Payload(data[t], 5) * 256 + Payload(data[t], 4))
                 /\ model_number
                      = Some(Payload(data[t], 7) * 256 + Payload(data[t], 6))
                 /\ manufacturer_id[1] \in 0..65535
                 /\ model_number[1] \in 0..65535)
    /\ [][\A t \in Threads : Delivering(t, IsPage80)
              => UNCHANGED <<stride_count, calories, sw_revision, serial_number>>]_vars

C3_Witness ==
    /\ pc[Main] = "s_ret"
    /\ data[Main] = Ramp(80, 249)
    /\ hw_revision = Some(251)
    /\ manufacturer_id = Some(253 * 256 + 252)
    /\ model_number = Some(255 * 256 + 254)
    /\ stride_count # None

(* C4: when on_message has decoded a 9-byte frame of page 0x51, the software
   revision is payload byte 3 and the serial number is the big-endian unsigned
   32-bit number of payload bytes 4..7 (written in two 16-bit limbs); no step
   of that call changes the stride count, the calories, the hardware revision,
   the manufacturer id or the model number. *)
C4_ProductInfo ==
    /\ [](\A t \in Threads : pc[t] \in {"s_release", "s_ret"} /\ IsPage(data[t], 81)
              => /\ sw_revision = Some(Payload(data[t], 3))
                 /\ serial_number
                      = Some(<<Payload(data[t], 4) * 256 + Payload(data[t], 5),
                               Payload(data[t], 6) * 256 + Payload(data[t], 7)>>)
                 /\ serial_number[1][1] \in 0..65535
                 /\ serial_number[1][2] \in 0..65535)
    /\ [][\A t \in Threads : Delivering(t, IsPage81)
              => UNCHANGED <<stride_count, calories, hw_revision, manufacturer_id,
                             model_number>>]_vars

C4_Witness ==
    /\ pc[Main] = "s_ret"
    /\ data[Main] = Flat(81, 255)
    /\ sw_revision = Some(255)
    /\ serial_number = Some(<<65535, 65535>>)
    /\ manufacturer_id # None

(* C5 as the specification states it: the manufacturer id and the model number
   a reader has obtained from the two accessors are both unset or both decoded
   from one and the same page-0x50 frame. *)
C5_PairNeverMixed ==
    \A t \in Readers :
        {"manufacturer_id", "model_number"} \subseteq DOMAIN ret[t]
            => \/ ret[t]["manufacturer_id"] = None /\ ret[t]["model_number"] = None
               \/ \E f \in ConcFrames :
                      /\ IsPage(f, 80)
                      /\ ret[t]["manufacturer_id"] = ExpManufacturer(f)
                      /\ ret[t]["model_number"] = ExpModel(f)

(* C5, amended: no accessor read sees a page-0x50 frame half applied.  Whenever
   an accessor holds the lock to copy its field, the hardware revision, the
   manufacturer id and the model number are all unset (no page-0x50 frame has
   taken the lock yet) or all decoded from the latest page-0x50 frame that took
   the lock; and each value a reader has obtained for one of the two fields is
   unset or decoded from a page-0x50 frame that was delivered. *)
C5_NoHalfAppliedFrameSeen ==
    /\ \A t \in Threads : pc[t] \in AccLocked
          => IF last[80] = <<>>
             THEN hw_revision = None /\ manufacturer_id = None /\ model_number = None
             ELSE /\ hw_revision = ExpHw(last[80])
                  /\ manufacturer_id = ExpManufacturer(last[80])
                  /\ model_number = ExpModel(last[80])
    /\ \A t \in Readers :
          /\ "manufacturer_id" \in DOMAIN ret[t]
                => \/ ret[t]["manufacturer_id"] = None
                   \/ \E f \in ConcFrames :
                          IsPage(f, 80) /\ ret[t]["manufacturer_id"] = ExpManufacturer(f)
          /\ "model_number" \in DOMAIN ret[t]
                => \/ ret[t]["model_number"] = None
                   \/ \E f \in ConcFrames :
                          IsPage(f, 80) /\ ret[t]["model_number"] = ExpModel(f)

C5_Witness ==
    \E r \in Readers, w \in Writers :
        /\ pc[r] = "a_copy"
        /\ acc[r] = "model_number"
        /\ "manufacturer_id" \in DOMAIN ret[r]
        /\ ret[r]["manufacturer_id"] = None
        /\ model_number # None
        /\ pc[w] = "s_ret"
        /\ IsPage(data[w], 80)

(* C6 as the specification states it: every accessor, detected_device
   included, reads its field under the lock, so that no step in which an
   accessor reads its field is taken while an on_message call is inside its
   with block. *)
C6_NoReadDuringDecode ==
    [][\A t \in Threads : AccCopy(t) \/ AccDetected(t)
           => \A u \in Threads : pc[u] \notin SetLocked]_vars

(* C6, amended: every accessor except detected_device reads its field with the
   lock held, so that no such read occurs while an on_message call or another
   accessor is inside its with block; detected_device reads without the lock. *)
C6_LockedReads ==
    /\ \A t \in Threads : pc[t] \in AccLocked
          => /\ acc[t] \in Accessors \ {"detected_device"}
             /\ lock = t
             /\ \A u \in Threads \ {t} : pc[u] \notin SetLocked \cup AccLocked
    /\ \A t \in Threads : pc[t] \in SetLocked
          => /\ lock = t
             /\ \A u \in Threads \ {t} : pc[u] \notin SetLocked \cup AccLocked
    /\ \A t \in Threads : acc[t] = "detected_device" => lock # t

C6_Witness ==
    \E r \in Readers, w \in Writers :
        /\ pc[r] = "a_copy"
        /\ acc[r] = "stride_count"
        /\ pc[w] = "s_acquire"
        /\ IsPage(data[w], 1)

(* C7: every field is unset at construction and every accessor returns unset
   as long as no frame of its page has been received; a field goes from unset
   to set only in a step of an on_message call that delivers a 9-byte frame of
   the field's page; a field that is set is never unset again. *)
C7_UnsetUntilItsPage ==
    /\ [](ops = 0 => /\ stride_count = None /\ calories = None
                     /\ hw_revision = None /\ manufacturer_id = None
                     /\ model_number = None /\ sw_revision = None
                     /\ serial_number = None)
    /\ [](\A t \in Threads :
            /\ "stride_count" \in DOMAIN ret[t] /\ last[1] = <<>>
                  => ret[t]["stride_count"] = None
            /\ "hardware_revision" \in DOMAIN ret[t] /\ last[80] = <<>>
                  => ret[t]["hardware_revision"] = None
            /\ "manufacturer_id" \in DOMAIN ret[t] /\ last[80] = <<>>
                  => ret[t]["manufacturer_id"] = None
            /\ "model_number" \in DOMAIN ret[t] /\ last[80] = <<>>
                  => ret[t]["model_number"] = None
            /\ "software_revision" \in DOMAIN ret[t] /\ last[81] = <<>>
                  => ret[t]["software_revision"] = None
            /\ "serial_number" \in DOMAIN ret[t] /\ last[81] = <<>>
                  => ret[t]["serial_number"] = None)
    /\ [][/\ stride_count = None /\ stride_count' # None
                => \E t \in Threads : StepOf(t) /\ IsPage(data[t], 1)
          /\ calories = None /\ calories' # None
                => \E t \in Threads : StepOf(t) /\ IsPage(data[t], 3)
          /\ \/ hw_revision = None /\ hw_revision' # None
             \/ manufacturer_id = None /\ manufacturer_id' # None
             \/ model_number = None /\ model_number' # None
                => \E t \in Threads : StepOf(t) /\ IsPage(data[t], 80)
          /\ \/ sw_revision = None /\ sw_revision' # None
             \/ serial_number = None /\ serial_number' # None
                => \E t \in Threads : StepOf(t) /\ IsPage(data[t], 81)]_vars
    /\ [][/\ stride_count # None => stride_count' # None
          /\ calories # None => calories' # None
          /\ hw_revision # None => hw_revision' # None
          /\ manufacturer_id # None => manufacturer_id' # None
          /\ model_number # None => model_number' # None
          /\ sw_revision # None => sw_revision' # None
          /\ serial_number # None => serial_number' # None]_vars

C7_Witness ==
    /\ stride_count # None
    /\ manufacturer_id # None
    /\ calories = None
    /\ "serial_number" \in DOMAIN ret[Main]
    /\ ret[Main]["serial_number"] = None
    /\ pc[Main] = "idle"

(* C8: a 9-byte frame whose page is 0x02, 0x10, 0x16 or no page of the table
   changes no field in any step of its call, never raises, and the call does
   not hold the lock when it returns. *)
C8_InertPages ==
    /\ [](\A t \in Threads : pc[t] \in SetPcs /\ Inert(data[t])
              => pc[t] # "s_raised" /\ (pc[t] = "s_ret" => lock # t))
    /\ [][\A t \in Threads : Delivering(t, Inert) => UNCHANGED fields]_vars

C8_Witness ==
    /\ pc[Main] = "s_ret"
    /\ data[Main] = Ramp(255, 1)
    /\ hw_revision # None
    /\ calories # None
    /\ lock = Free

(* C9: when an on_message call that delivered a 9-byte page-0x01 frame returns,
   stride_data of the registered callback has been invoked.  (Run by a single
   thread, the first such call found the count unset and so changed it.) *)
C9_StrideDataNotified ==
    \A t \in Threads : pc[t] = "s_ret" /\ IsPage(data[t], 1) => stride_data_calls > 0

(* C10: last writer wins.  For each page of the decode table, while no
   on_message call is in the middle of applying a frame of that page, the
   page's fields are what the table decodes from the latest 9-byte frame of
   that page in the order the calls took the lock, and are unset if there was
   none: a frame replaces the values, it adds nothing to them. *)
C10_LastWriterWins ==
    LET Applying(p) == \E t \in Threads :
                           pc[t] \in SetLocked \ {"s_release"} /\ IsPage(data[t], p)
    IN  /\ ~Applying(1)
            => stride_count = IF last[1] = <<>> THEN None ELSE ExpStride(last[1])
        /\ ~Applying(3)
            => calories = IF last[3] = <<>> THEN None ELSE ExpCalories(last[3])
        /\ ~Applying(80)
            => /\ hw_revision = IF last[80] = <<>> THEN None ELSE ExpHw(last[80])
               /\ manufacturer_id
                    = IF last[80] = <<>> THEN None ELSE ExpManufacturer(last[80])
               /\ model_number = IF last[80] = <<>> THEN None ELSE ExpModel(last[80])
        /\ ~Applying(81)
            => /\ sw_revision = IF last[81] = <<>> THEN None ELSE ExpSw(last[81])
               /\ serial_number = IF last[81] = <<>> THEN None ELSE ExpSerial(last[81])

C10_Witness ==
    /\ pc["w1"] = "s_ret"
    /\ pc["w2"] = "s_ret"
    /\ data["w1"] = Ramp(1, 1)
    /\ data["w2"] = Ramp(1, 1)
    /\ stride_count = Some(6)
    /\ calories = Some(6)

====
